---- MODULE Spec2Model ----
(***************************************************************************)
(* Model of the cwalk traversal engine (src/cwalk.go): Walker.Run, the      *)
(* worker loop startWorker, the work-stealing scan stealWork, the directory *)
(* expansion processBranch, the per-worker queues and Stop.                 *)
(*                                                                          *)
(* A branch (walkBranch: parent link + basename) is represented by the      *)
(* chain of basenames from the root: the root branch is <<>>, the parent    *)
(* is the chain without its last element, the basename is the last element. *)
(* A nil *walkBranch is the empty sequence of branches, a non-nil one a     *)
(* one-element sequence.                                                    *)
(***************************************************************************)
EXTENDS Integers, Sequences, FiniteSets, TLC

\* Largest worker count requested from NewWalker.
MaxWorkers == 3

(***************************************************************************)
(* The file system under the root path.  A fixture maps the chain of names  *)
(* of a path to what os.Lstat and os.ReadDir return for it.  Listings are   *)
(* in os.ReadDir's order (sorted by file name).                             *)
(***************************************************************************)
File == [kind |-> "file", entries |-> <<>>, statErr |-> FALSE, readErr |-> FALSE]

Symlink == [kind |-> "symlink", entries |-> <<>>, statErr |-> FALSE, readErr |-> FALSE]

Dir(names) == [kind |-> "dir", entries |-> names, statErr |-> FALSE, readErr |-> FALSE]

\* A directory whose listing fails: os.ReadDir returns an error together with
\* the entries it had read before the error.
UnreadableDir(names) ==
    [kind |-> "dir", entries |-> names, statErr |-> FALSE, readErr |-> TRUE]

\* A path whose lstat fails (it does not exist or vanished after the listing).
Missing(kind) == [kind |-> kind, entries |-> <<>>, statErr |-> TRUE, readErr |-> FALSE]

\* setupTestDir: file1.txt, dir1/file2.txt, dir1/dir2/file3.txt, dir3/file4.txt
BasicTree ==
    (<<>> :> Dir(<<"dir1", "dir3", "file1.txt">>))
    @@ (<<"dir1">> :> Dir(<<"dir2", "file2.txt">>))
    @@ (<<"dir1", "dir2">> :> Dir(<<"file3.txt">>))
    @@ (<<"dir1", "dir2", "file3.txt">> :> File)
    @@ (<<"dir1", "file2.txt">> :> File)
    @@ (<<"dir3">> :> Dir(<<"file4.txt">>))
    @@ (<<"dir3", "file4.txt">> :> File)
    @@ (<<"file1.txt">> :> File)

\* TestWalkStartsConsistently: a.txt, sub/b.txt
StartTree ==
    (<<>> :> Dir(<<"a.txt", "sub">>))
    @@ (<<"a.txt">> :> File)
    @@ (<<"sub">> :> Dir(<<"b.txt">>))
    @@ (<<"sub", "b.txt">> :> File)

\* TestWalkEmptyDirectory: an empty root
EmptyTree == (<<>> :> Dir(<<>>))

\* TestWalkNonexistentDirectory: the root does not exist
NonexistentTree == (<<>> :> Missing("dir"))

\* A .snapshot directory with contents, and a regular file named .snapshot.
SnapshotTree ==
    (<<>> :> Dir(<<".snapshot", "a.txt", "d">>))
    @@ (<<".snapshot">> :> Dir(<<"s.txt", "sub">>))
    @@ (<<".snapshot", "s.txt">> :> File)
    @@ (<<".snapshot", "sub">> :> Dir(<<>>))
    @@ (<<"a.txt">> :> File)
    @@ (<<"d">> :> Dir(<<".snapshot">>))
    @@ (<<"d", ".snapshot">> :> File)

\* SnapshotTree with the .snapshot directory and everything beneath it removed.
PrunedSnapshotTree ==
    (<<>> :> Dir(<<"a.txt", "d">>))
    @@ (<<"a.txt">> :> File)
    @@ (<<"d">> :> Dir(<<".snapshot">>))
    @@ (<<"d", ".snapshot">> :> File)

\* A symbolic link to a directory beside the directory itself.
SymlinkTree ==
    (<<>> :> Dir(<<"link", "real">>))
    @@ (<<"link">> :> Symlink)
    @@ (<<"real">> :> Dir(<<"f">>))
    @@ (<<"real", "f">> :> File)

\* Failures below the root: an unreadable directory, and a directory and a
\* file that vanish between the listing and their lstat.
FailTree ==
    (<<>> :> Dir(<<"locked", "ok", "x">>))
    @@ (<<"locked">> :> UnreadableDir(<<"p">>))
    @@ (<<"locked", "p">> :> Dir(<<>>))
    @@ (<<"ok">> :> Dir(<<"f", "gone">>))
    @@ (<<"ok", "f">> :> File)
    @@ (<<"ok", "gone">> :> Missing("dir"))
    @@ (<<"x">> :> Missing("file"))

Trees ==
    ("basic" :> BasicTree) @@ ("start" :> StartTree) @@ ("empty" :> EmptyTree)
    @@ ("nonexistent" :> NonexistentTree) @@ ("snapshot" :> SnapshotTree)
    @@ ("symlink" :> SymlinkTree) @@ ("fail" :> FailTree)
    @@ ("pruned" :> PrunedSnapshotTree)

\* The callback sets used by the tests and by StatsWalker.
AllHooks == {"OnLstat", "OnReadDir", "OnFileOrSymlink", "OnDirectory"}

CallbackSets ==
    {AllHooks, {"OnFileOrSymlink", "OnDirectory"}, {"OnLstat"}, {"OnReadDir"}, {}}

VARIABLES
    tree,        \* name of the fixture under rootPath
    callbacks,   \* Walker.callbacks: the set of hooks that are not nil
    requested,   \* the numWorkers argument of NewWalker
    numWorkers,  \* Walker.numWorkers
    cancelled,   \* monitorCtx is done
    workers,     \* Walker.workers: the ids of the workers created, in order
    workerMu,    \* Walker.workerMu: MuFree, or who holds it
    wg,          \* Walker.wg counter
    runPc,       \* position of Run
    runI,        \* Run's loop variable i
    runResult,   \* what Run returned
    pc,          \* position of each worker goroutine
    queue,       \* walkWorker.queue of each worker
    held,        \* the branch a worker has in hand (branch / stolenItem)
    idx,         \* position in the entries loop of processBranch
    victim,      \* position in the range loop of stealWork
    log,         \* the callback invocations of each branch's expansion, in order
    errLog,      \* branches reported through log.Printf
    filters,     \* StatsWalker.filters
    inbox,       \* the OnLstat invocations each calling worker makes on StatsWalker
    statPc,      \* position of each calling worker inside the OnLstat callback
    statFi,      \* the callback's local fi of each calling worker
    statTmp,     \* the results a calling worker has read and not yet written back
    statMu,      \* StatsWalker.mu: MuFree, or who holds it
    results,     \* StatsWalker.results
    summed       \* calculateSummary has run

vars == <<tree, callbacks, requested, numWorkers, cancelled, workers, workerMu, wg,
          runPc, runI, runResult, pc, queue, held, idx, victim, log, errLog,
          filters, inbox, statPc, statFi, statTmp, statMu, results, summed>>

\* the state of the stat package, which no step of the walker itself touches
statVars == <<filters, inbox, statPc, statFi, statTmp, statMu, results, summed>>

config == <<tree, callbacks, requested, numWorkers>>

\* sync.Mutex workerMu: unlocked, locked by Run, locked by worker w in stealWork
MuFree == <<>>

MuRun == <<"Run">>

MuWorker(w) == <<"worker", w>>

(***************************************************************************)
(* walkBranch                                                               *)
(***************************************************************************)
RootBranch == <<>>

isRoot(b) == Len(b) = 0

parent(b) == SubSeq(b, 1, Len(b) - 1)

basename(b) == b[Len(b)]

childBranch(b, name) == Append(b, name)

RECURSIVE relPathElems(_)
relPathElems(b) ==
    IF isRoot(b) THEN <<>> ELSE Append(relPathElems(parent(b)), basename(b))

\* strings.Join(elems, sep)
RECURSIVE Join(_, _)
Join(elems, sep) ==
    IF Len(elems) = 0 THEN ""
    ELSE IF Len(elems) = 1 THEN elems[1]
    ELSE Join(SubSeq(elems, 1, Len(elems) - 1), sep) \o sep \o elems[Len(elems)]

relPath(b) == Join(relPathElems(b), "/")

\* an entry path built without the root case
childRelPath_NoRootCase(b, entryName) == relPath(b) \o "/" \o entryName

\* The relative path processBranch computes for an entry of branch b.
childRelPath(b, entryName) ==
    IF ~isRoot(b) THEN relPath(b) \o "/" \o entryName ELSE entryName

(***************************************************************************)
(* The boundary calls, answered by the fixture.                            *)
(***************************************************************************)
Node(t, elems) == Trees[t][elems]

\* os.Lstat(branch.absPath(rootPath)) returns an error
LstatFails(t, elems) == Node(t, elems).statErr

\* an expansion that treats an empty listing as a failed one
ReadDirFails_OnEmpty(t, elems) == Node(t, elems).readErr \/ Node(t, elems).entries = <<>>

\* a listing whose error goes unnoticed
ReadDirFails_Never(t, elems) == FALSE

\* os.ReadDir(absPath) returns an error
ReadDirFails(t, elems) == Node(t, elems).readErr

\* the entries os.ReadDir(absPath) returns
ReadDir(t, elems) == Node(t, elems).entries

\* a test that follows symbolic links, as os.Stat would
EntryIsDir_FollowLinks(t, elems, name) ==
    Node(t, Append(elems, name)).kind \in {"dir", "symlink"}

\* entry.IsDir() of the entry named name in the listing of elems
EntryIsDir(t, elems, name) == Node(t, Append(elems, name)).kind = "dir"

SnapshotName == ".snapshot"

(***************************************************************************)
(* Callback invocations                                                     *)
(***************************************************************************)
Call(hook, path, isDir, err, w) ==
    [hook |-> hook, path |-> path, isDir |-> isDir, err |-> err, w |-> w]

\* if callbacks.<hook> != nil { callbacks.<hook>(...) }
Invoke(cbs, call) == IF call.hook \in cbs THEN <<call>> ELSE <<>>

\* the invocations calls, made while expanding branch b, recorded in order
Record(l, b, calls) ==
    IF calls = <<>> THEN l
    ELSE IF b \in DOMAIN l THEN [l EXCEPT ![b] = @ \o calls]
    ELSE l @@ (b :> calls)

\* an expansion that gives up a whole listing that holds a .snapshot directory
SkipEntry_Listing(t, b, name) ==
    \E i \in 1 .. Len(ReadDir(t, b)) :
        ReadDir(t, b)[i] = SnapshotName /\ EntryIsDir(t, b, ReadDir(t, b)[i])

\* an expansion that skips nothing
SkipEntry_Never(t, b, name) == FALSE

\* processBranch: "Skip special directories"
SkipEntry(t, b, name) == EntryIsDir(t, b, name) /\ name = SnapshotName

\* a loop that ranges over the listing from its end
EntryAt_Reverse(entries, i) == entries[Len(entries) + 1 - i]

\* "for _, entry := range entries": the entry of the i-th iteration
EntryAt(entries, i) == entries[i]

\* an entries loop that queues directories without reporting them
EntryCalls_NoDirectoryHook(t, cbs, b, name, w) ==
    IF SkipEntry(t, b, name) \/ EntryIsDir(t, b, name) THEN <<>>
    ELSE IF "OnFileOrSymlink" \in cbs
         THEN <<Call("OnFileOrSymlink", childRelPath(b, name), FALSE, FALSE, w)>>
              \o Invoke(cbs, Call("OnLstat", childRelPath(b, name), FALSE,
                                  LstatFails(t, Append(b, name)), w))
         ELSE <<>>

\* processBranch, one iteration of the entries loop: the callbacks it invokes
EntryCalls(t, cbs, b, name, w) ==
    IF SkipEntry(t, b, name) THEN <<>>
    ELSE IF EntryIsDir(t, b, name)
         THEN Invoke(cbs, Call("OnDirectory", childRelPath(b, name), FALSE, FALSE, w))
         ELSE IF "OnFileOrSymlink" \in cbs
              THEN <<Call("OnFileOrSymlink", childRelPath(b, name), FALSE, FALSE, w)>>
                   \o Invoke(cbs, Call("OnLstat", childRelPath(b, name), FALSE,
                                       LstatFails(t, Append(b, name)), w))
              ELSE <<>>

\* processBranch, one iteration of the entries loop: the branches it queues
EntryPush(t, b, name) ==
    IF SkipEntry(t, b, name) THEN <<>>
    ELSE IF EntryIsDir(t, b, name) THEN <<childBranch(b, name)>> ELSE <<>>

(***************************************************************************)
(* walkWorker queue operations (each runs under the worker's own mutex)     *)
(***************************************************************************)
queueLen(q) == Len(q)

queuePush(q, item) == Append(q, item)

\* a queuePop that returns the oldest item
queuePopItem_First(q) == IF Len(q) > 0 THEN <<q[1]>> ELSE <<>>

\* the item queuePop returns: <<>> for nil
queuePopItem(q) == IF Len(q) > 0 THEN <<q[Len(q)]>> ELSE <<>>

\* queuePop that returns the last item without removing it
queuePopRest_Keep(q) == q

\* the queue queuePop leaves
queuePopRest(q) == IF Len(q) > 0 THEN SubSeq(q, 1, Len(q) - 1) ELSE q

(***************************************************************************)
(* NewWalker                                                                *)
(***************************************************************************)
\* a constructor that stores the requested count as it is
NewWalkerCount_NoDefault(n) == n

NewWalkerCount(n) == IF n <= 0 THEN 1 ELSE n

WorkerIds == 0 .. (numWorkers - 1)

\* the stat package before any StatsWalker is built
StatIdle ==
    /\ filters = <<>>
    /\ inbox = <<>>
    /\ statPc = <<>>
    /\ statFi = <<>>
    /\ statTmp = <<>>
    /\ statMu = MuFree
    /\ results = <<>>
    /\ summed = FALSE

\* the state after NewWalker(rootPath, requested, callbacks), for a requested
\* count drawn from counts and a callback set drawn from hookSets
NewWalkerState(counts, hookSets) ==
    /\ tree \in DOMAIN Trees
    /\ callbacks \in hookSets
    /\ requested \in counts
    /\ numWorkers = NewWalkerCount(requested)
    /\ cancelled = FALSE
    /\ workers = <<>>
    /\ workerMu = MuFree
    /\ wg = 0
    /\ runPc = "lock"
    /\ runI = 0
    /\ runResult = "none"
    /\ pc = [w \in 0 .. (NewWalkerCount(requested) - 1) |-> "new"]
    /\ queue = [w \in 0 .. (NewWalkerCount(requested) - 1) |-> <<>>]
    /\ held = [w \in 0 .. (NewWalkerCount(requested) - 1) |-> <<>>]
    /\ idx = [w \in 0 .. (NewWalkerCount(requested) - 1) |-> 0]
    /\ victim = [w \in 0 .. (NewWalkerCount(requested) - 1) |-> 0]
    /\ log = <<>>
    /\ errLog = <<>>

\* a walker that no StatsWalker drives
InitWith(counts, hookSets) == NewWalkerState(counts, hookSets) /\ StatIdle

Init == InitWith((0 - 1) .. MaxWorkers, CallbackSets)

(***************************************************************************)
(* Walker.Run                                                               *)
(***************************************************************************)
workerVars == <<pc, queue, held, idx, victim>>

\* c.workerMu.Lock()
RunLock ==
    /\ runPc = "lock"
    /\ workerMu = MuFree
    /\ workerMu' = MuRun
    /\ runI' = 0
    /\ runPc' = "create"
    /\ UNCHANGED <<statVars, config, cancelled, workers, wg, runResult, workerVars, log, errLog>>

\* one iteration of the creation loop: append the worker, wg.Add(1), go startWorker
RunCreate ==
    /\ runPc = "create"
    /\ runI < numWorkers
    /\ workers' = Append(workers, runI)
    /\ wg' = wg + 1
    /\ pc' = [pc EXCEPT ![runI] = "pop"]
    /\ runI' = runI + 1
    /\ UNCHANGED <<statVars, config, cancelled, workerMu, runPc, runResult, queue, held, idx,
                   victim, log, errLog>>

\* c.workerMu.Unlock()
RunUnlock ==
    /\ runPc = "create"
    /\ ~(runI < numWorkers)
    /\ workerMu' = MuFree
    /\ runPc' = "seed"
    /\ UNCHANGED <<statVars, config, cancelled, workers, wg, runI, runResult, workerVars, log,
                   errLog>>

\* root := &walkBranch{}; c.workers[0].queuePush(root)
RunSeed ==
    /\ runPc = "seed"
    /\ queue' = [queue EXCEPT ![workers[1]] = queuePush(@, RootBranch)]
    /\ runPc' = "wait"
    /\ UNCHANGED <<statVars, config, cancelled, workers, workerMu, wg, runI, runResult, pc, held,
                   idx, victim, log, errLog>>

\* a Run that does not wait for the workers
WaitDone_NoWait == TRUE

\* wg.Wait() has nothing left to wait for
WaitDone == wg = 0

\* a Run that surfaces the failures its workers logged
RunReturnValue_Err(errs) == IF errs # <<>> THEN "error" ELSE "nil"

\* "return nil": the value Run returns, whatever processBranch errors were logged
RunReturnValue(errs) == "nil"

\* c.wg.Wait(); return nil
RunReturn ==
    /\ runPc = "wait"
    /\ WaitDone
    /\ runPc' = "returned"
    /\ runResult' = RunReturnValue(errLog)
    /\ UNCHANGED <<statVars, config, cancelled, workers, workerMu, wg, runI, workerVars, log,
                   errLog>>

(***************************************************************************)
(* Walker.startWorker: the worker loop                                      *)
(***************************************************************************)
runVars == <<workers, runPc, runI, runResult>>

\* a loop that an exited worker re-enters when it finds its queue filled
WorkerPop_Revive(w) ==
    /\ pc[w] = "pop" \/ (pc[w] = "exited" /\ queue[w] # <<>>)
    /\ held' = [held EXCEPT ![w] = queuePopItem(queue[w])]
    /\ queue' = [queue EXCEPT ![w] = queuePopRest(@)]
    /\ pc' = [pc EXCEPT ![w] = IF queuePopItem(queue[w]) # <<>> THEN "lstat" ELSE "steal"]
    /\ UNCHANGED <<statVars, config, cancelled, workerMu, wg, runVars, idx, victim, log, errLog>>

\* branch := worker.queuePop(); a branch goes to processBranch, nil to stealWork
WorkerPop(w) ==
    /\ pc[w] = "pop"
    /\ held' = [held EXCEPT ![w] = queuePopItem(queue[w])]
    /\ queue' = [queue EXCEPT ![w] = queuePopRest(@)]
    /\ pc' = [pc EXCEPT ![w] = IF queuePopItem(queue[w]) # <<>> THEN "lstat" ELSE "steal"]
    /\ UNCHANGED <<statVars, config, cancelled, workerMu, wg, runVars, idx, victim, log, errLog>>

(***************************************************************************)
(* walkWorker.processBranch                                                 *)
(***************************************************************************)
\* os.Lstat of the branch, OnLstat, and the return on failure (logged by the loop)
ProcLstat(w) ==
    /\ pc[w] = "lstat"
    /\ LET b == held[w][1]
           err == LstatFails(tree, relPathElems(b))
       IN /\ log' = Record(log, b, Invoke(callbacks, Call("OnLstat", relPath(b), TRUE, err, w)))
          /\ IF err
             THEN /\ errLog' = Append(errLog, relPath(b))
                  /\ held' = [held EXCEPT ![w] = <<>>]
                  /\ pc' = [pc EXCEPT ![w] = "pop"]
             ELSE /\ pc' = [pc EXCEPT ![w] = "readdir"]
                  /\ UNCHANGED <<held, errLog>>
    /\ UNCHANGED <<statVars, config, cancelled, workerMu, wg, runVars, queue, idx, victim>>

\* os.ReadDir of the branch, OnReadDir, and the return on failure
ProcReadDir(w) ==
    /\ pc[w] = "readdir"
    /\ LET b == held[w][1]
           err == ReadDirFails(tree, relPathElems(b))
       IN /\ log' = Record(log, b,
                              Invoke(callbacks, Call("OnReadDir", relPath(b), FALSE, err, w)))
          /\ IF err
             THEN /\ errLog' = Append(errLog, relPath(b))
                  /\ held' = [held EXCEPT ![w] = <<>>]
                  /\ pc' = [pc EXCEPT ![w] = "pop"]
                  /\ UNCHANGED idx
             ELSE /\ pc' = [pc EXCEPT ![w] = "entries"]
                  /\ idx' = [idx EXCEPT ![w] = 1]
                  /\ UNCHANGED <<held, errLog>>
    /\ UNCHANGED <<statVars, config, cancelled, workerMu, wg, runVars, queue, victim>>

\* one iteration of "for _, entry := range entries" up to the queuePush: the
\* skip test and the callbacks of the entry
ProcEntry(w) ==
    /\ pc[w] = "entries"
    /\ idx[w] <= Len(ReadDir(tree, relPathElems(held[w][1])))
    /\ LET b == held[w][1]
           name == EntryAt(ReadDir(tree, relPathElems(b)), idx[w])
       IN /\ log' = Record(log, b, EntryCalls(tree, callbacks, b, name, w))
          /\ IF EntryPush(tree, b, name) # <<>>
             THEN /\ pc' = [pc EXCEPT ![w] = "push"]
                  /\ UNCHANGED idx
             ELSE /\ idx' = [idx EXCEPT ![w] = @ + 1]
                  /\ UNCHANGED pc
    /\ UNCHANGED <<statVars, config, cancelled, workerMu, wg, runVars, queue, held, victim, errLog>>

\* an expansion that hands each child to the next worker's queue
ProcPush_ToNeighbour(w) ==
    /\ pc[w] = "push"
    /\ LET b == held[w][1]
           name == EntryAt(ReadDir(tree, relPathElems(b)), idx[w])
       IN queue' = [queue EXCEPT ![(w + 1) % numWorkers] =
                                    queuePush(@, EntryPush(tree, b, name)[1])]
    /\ idx' = [idx EXCEPT ![w] = @ + 1]
    /\ pc' = [pc EXCEPT ![w] = "entries"]
    /\ UNCHANGED <<statVars, config, cancelled, workerMu, wg, runVars, held, victim, log, errLog>>

\* w.queuePush(childBranch) for a directory entry, then the next iteration
ProcPush(w) ==
    /\ pc[w] = "push"
    /\ LET b == held[w][1]
           name == EntryAt(ReadDir(tree, relPathElems(b)), idx[w])
       IN queue' = [queue EXCEPT ![w] = queuePush(@, EntryPush(tree, b, name)[1])]
    /\ idx' = [idx EXCEPT ![w] = @ + 1]
    /\ pc' = [pc EXCEPT ![w] = "entries"]
    /\ UNCHANGED <<statVars, config, cancelled, workerMu, wg, runVars, held, victim, log, errLog>>

\* the entries loop is over: return nil, back to the top of the worker loop
ProcReturn(w) ==
    /\ pc[w] = "entries"
    /\ ~(idx[w] <= Len(ReadDir(tree, relPathElems(held[w][1]))))
    /\ held' = [held EXCEPT ![w] = <<>>]
    /\ idx' = [idx EXCEPT ![w] = 0]
    /\ pc' = [pc EXCEPT ![w] = "pop"]
    /\ UNCHANGED <<statVars, config, cancelled, workerMu, wg, runVars, queue, victim, log, errLog>>

(***************************************************************************)
(* Walker.stealWork                                                         *)
(***************************************************************************)
\* a scan that raids queues holding a single item
StealThreshold_Any(qlen) == qlen > 0

\* the threshold test of the scan: "if qlen > 1"
StealThreshold(qlen) == qlen > 1

\* a scan entered without waiting for the lock over the worker array
StealLock_NoMutex(w) ==
    /\ pc[w] = "steal"
    /\ workerMu' = MuWorker(w)
    /\ victim' = [victim EXCEPT ![w] = 1]
    /\ pc' = [pc EXCEPT ![w] = "scan"]
    /\ UNCHANGED <<statVars, config, cancelled, wg, runVars, queue, held, idx, log, errLog>>

\* c.workerMu.Lock()
StealLock(w) ==
    /\ pc[w] = "steal"
    /\ workerMu = MuFree
    /\ workerMu' = MuWorker(w)
    /\ victim' = [victim EXCEPT ![w] = 1]
    /\ pc' = [pc EXCEPT ![w] = "scan"]
    /\ UNCHANGED <<statVars, config, cancelled, wg, runVars, queue, held, idx, log, errLog>>

\* one iteration of "for _, victim := range c.workers" up to the threshold test
StealScan(w) ==
    /\ pc[w] = "scan"
    /\ victim[w] <= Len(workers)
    /\ LET v == workers[victim[w]]
       IN IF v = w
          THEN /\ victim' = [victim EXCEPT ![w] = @ + 1]
               /\ UNCHANGED pc
          ELSE IF StealThreshold(queueLen(queue[v]))
               THEN /\ pc' = [pc EXCEPT ![w] = "stealpop"]
                    /\ UNCHANGED victim
               ELSE /\ victim' = [victim EXCEPT ![w] = @ + 1]
                    /\ UNCHANGED pc
    /\ UNCHANGED <<statVars, config, cancelled, workerMu, wg, runVars, queue, held, idx, log, errLog>>

\* stolenItem := victim.queuePop(); nil continues the scan
StealPop(w) ==
    /\ pc[w] = "stealpop"
    /\ LET v == workers[victim[w]]
           item == queuePopItem(queue[v])
       IN /\ queue' = [queue EXCEPT ![v] = queuePopRest(@)]
          /\ held' = [held EXCEPT ![w] = item]
          /\ IF item # <<>>
             THEN /\ pc' = [pc EXCEPT ![w] = "stealpush"]
                  /\ UNCHANGED victim
             ELSE /\ pc' = [pc EXCEPT ![w] = "scan"]
                  /\ victim' = [victim EXCEPT ![w] = @ + 1]
    /\ UNCHANGED <<statVars, config, cancelled, workerMu, wg, runVars, idx, log, errLog>>

\* a steal that loses the branch it took
StealPush_Drop(w) ==
    /\ pc[w] = "stealpush"
    /\ held' = [held EXCEPT ![w] = <<>>]
    /\ victim' = [victim EXCEPT ![w] = 0]
    /\ workerMu' = MuFree
    /\ pc' = [pc EXCEPT ![w] = "pop"]
    /\ UNCHANGED <<statVars, config, cancelled, wg, runVars, queue, idx, log, errLog>>

\* thief.queuePush(stolenItem); return true (the deferred Unlock runs)
StealPush(w) ==
    /\ pc[w] = "stealpush"
    /\ queue' = [queue EXCEPT ![w] = queuePush(@, held[w][1])]
    /\ held' = [held EXCEPT ![w] = <<>>]
    /\ victim' = [victim EXCEPT ![w] = 0]
    /\ workerMu' = MuFree
    /\ pc' = [pc EXCEPT ![w] = "pop"]
    /\ UNCHANGED <<statVars, config, cancelled, wg, runVars, idx, log, errLog>>

\* defer c.wg.Done()
wgDone(n) == n - 1

\* a failed scan that returns without releasing the lock
StealFail_KeepLock(w) ==
    /\ pc[w] = "scan"
    /\ ~(victim[w] <= Len(workers))
    /\ victim' = [victim EXCEPT ![w] = 0]
    /\ wg' = wgDone(wg)
    /\ pc' = [pc EXCEPT ![w] = "exited"]
    /\ UNCHANGED <<statVars, config, cancelled, workerMu, runVars, queue, held, idx, log, errLog>>

\* the scan found nothing: return false (Unlock), the worker returns (wg.Done)
StealFail(w) ==
    /\ pc[w] = "scan"
    /\ ~(victim[w] <= Len(workers))
    /\ victim' = [victim EXCEPT ![w] = 0]
    /\ workerMu' = MuFree
    /\ wg' = wgDone(wg)
    /\ pc' = [pc EXCEPT ![w] = "exited"]
    /\ UNCHANGED <<statVars, config, cancelled, runVars, queue, held, idx, log, errLog>>

(***************************************************************************)
(* Walker.Stop                                                              *)
(***************************************************************************)
\* a Stop that also drops the work still queued
Stop_Interrupt ==
    /\ cancelled' = TRUE
    /\ queue' = [w \in DOMAIN queue |-> <<>>]
    /\ UNCHANGED <<statVars, config, workerMu, wg, runVars, pc, held, idx, victim, log, errLog>>

\* a Stop that flips the token
Stop_Toggle ==
    /\ cancelled' = ~cancelled
    /\ UNCHANGED <<statVars, config, workerMu, wg, runVars, workerVars, log, errLog>>

\* c.cancel()
Stop ==
    /\ cancelled' = TRUE
    /\ UNCHANGED <<statVars, config, workerMu, wg, runVars, workerVars, log, errLog>>

Next ==
    \/ RunLock
    \/ RunCreate
    \/ RunUnlock
    \/ RunSeed
    \/ RunReturn
    \/ Stop
    \/ \E w \in WorkerIds : WorkerPop(w)
    \/ \E w \in WorkerIds : ProcLstat(w)
    \/ \E w \in WorkerIds : ProcReadDir(w)
    \/ \E w \in WorkerIds : ProcEntry(w)
    \/ \E w \in WorkerIds : ProcPush(w)
    \/ \E w \in WorkerIds : ProcReturn(w)
    \/ \E w \in WorkerIds : StealLock(w)
    \/ \E w \in WorkerIds : StealScan(w)
    \/ \E w \in WorkerIds : StealPop(w)
    \/ \E w \in WorkerIds : StealPush(w)
    \/ \E w \in WorkerIds : StealFail(w)

Spec == Init /\ [][Next]_vars

(***************************************************************************)
(* Scheduling: the Go runtime runs every runnable goroutine again and       *)
(* again, so Run and each worker take their next step when it stays         *)
(* enabled.  Stop is the caller's choice and gets no fairness.              *)
(***************************************************************************)
RunStep == RunLock \/ RunCreate \/ RunUnlock \/ RunSeed \/ RunReturn

WorkerStep(w) ==
    /\ w \in WorkerIds
    /\ \/ WorkerPop(w)
       \/ ProcLstat(w)
       \/ ProcReadDir(w)
       \/ ProcEntry(w)
       \/ ProcPush(w)
       \/ ProcReturn(w)
       \/ StealLock(w)
       \/ StealScan(w)
       \/ StealPop(w)
       \/ StealPush(w)
       \/ StealFail(w)

\* the walks checked for termination: every fixture, every worker count, all
\* hooks configured
FairInit == InitWith(1 .. MaxWorkers, {AllHooks})

FairSpec ==
    /\ FairInit
    /\ [][Next]_vars
    /\ WF_vars(RunStep)
    /\ \A w \in 0 .. (MaxWorkers - 1) : WF_vars(WorkerStep(w))

(***************************************************************************)
(* StatsWalker (src/pkg/stat/walker_test.go): a walk with 4 workers whose   *)
(* only hook is OnLstat.                                                    *)
(***************************************************************************)
StatsWorkers == 4

StatsInit == InitWith({StatsWorkers}, {{"OnLstat"}})

StatsSpec == StatsInit /\ [][Next]_vars

(***************************************************************************)
(* Package stat (src/pkg/stat): FileInfo, Filters.Matches, getFileType and  *)
(* the OnLstat callback of StatsWalker.walkPath.                            *)
(*                                                                          *)
(* A path is the sequence of its characters.  A ModTime is kept as its age  *)
(* (time.Now() minus ModTime, in hours) and its year.  A uint32 of          *)
(* permission bits is the set of the bits that are set.  An optional        *)
(* pointer is <<>> for nil and <<v>> otherwise.  A compiled regexp is the   *)
(* set of file names it matches.                                            *)
(***************************************************************************)
\* Largest number of workers that call StatsWalker's OnLstat concurrently.
MaxCallers == 2

FileTypes == {"file", "dir", "symlink", "other"}

\* what os.Lstat reports for a path: the os.FileInfo
LstatInfo(kind, size, perm, age, year, uid, gid) ==
    [kind |-> kind, size |-> size, perm |-> perm, age |-> age, year |-> year,
     uid |-> uid, gid |-> gid]

\* one OnLstat invocation: (relPath, info, err)
LstatCall(path, info, err) == [path |-> path, info |-> info, err |-> err]

\* walkPath: "Extract file info", "Check if symlink", "Get UID/GID"
BuildFileInfo(path, info) ==
    [Path |-> path, Size |-> info.size,
     Mode |-> [type |-> info.kind, perm |-> info.perm],
     Age |-> info.age, Year |-> info.year,
     IsDir |-> info.kind = "dir", IsSymlink |-> info.kind = "symlink",
     UID |-> info.uid, GID |-> info.gid]

\* os.FileMode.IsRegular
IsRegular(mode) == mode.type = "regular"

getFileType(fi) ==
    IF fi.IsDir THEN "dir"
    ELSE IF fi.IsSymlink THEN "symlink"
    ELSE IF IsRegular(fi.Mode) THEN "file"
    ELSE "other"

\* walkPath, "Determine type": the type an entry is aggregated under
AggregateType(fi) ==
    IF fi.IsDir THEN "dir" ELSE IF fi.IsSymlink THEN "symlink" ELSE "file"

\* Matches, "Extract filename from path": the text after the last '/', or the
\* whole path when there is none
RECURSIVE LastSlash(_, _)
LastSlash(path, i) ==
    IF i = 0 THEN 0 ELSE IF path[i] = "/" THEN i ELSE LastSlash(path, i - 1)

FileName(path) ==
    LET i == LastSlash(path, Len(path))
        filename == IF i > 0 THEN SubSeq(path, i + 1, Len(path)) ELSE <<>>
    IN IF filename = <<>> THEN path ELSE filename

\* "for _, id := range ids { if x == id { found = true } }"
Found(ids, x) == \E k \in 1 .. Len(ids) : ids[k] = x

\* f.Types[fileType]: the zero value for a key the map does not hold
TypesLookup(types, fileType) ==
    IF fileType \in DOMAIN types THEN types[fileType] ELSE FALSE

\* a Matches that skips the group filter
Matches_NoGID(f, fi) ==
    IF DOMAIN f.Types # {} /\ ~TypesLookup(f.Types, getFileType(fi)) THEN FALSE
    ELSE IF f.MtimeOlderThan # <<>> /\ fi.Age < f.MtimeOlderThan[1] THEN FALSE
    ELSE IF f.MtimeYoungerThan # <<>> /\ fi.Age > f.MtimeYoungerThan[1] THEN FALSE
    ELSE IF f.SizeMin # <<>> /\ fi.Size < f.SizeMin[1] THEN FALSE
    ELSE IF f.SizeMax # <<>> /\ fi.Size > f.SizeMax[1] THEN FALSE
    ELSE IF f.NameRegex # <<>> /\ FileName(fi.Path) \notin f.NameRegex[1] THEN FALSE
    ELSE IF Len(f.UIDs) > 0 /\ ~Found(f.UIDs, fi.UID) THEN FALSE
    ELSE IF f.PermsHas # {} /\ (fi.Mode.perm \cap f.PermsHas) # f.PermsHas THEN FALSE
    ELSE IF f.PermsNot # {} /\ (fi.Mode.perm \cap f.PermsNot) # {} THEN FALSE
    ELSE TRUE

\* Filters.Matches: one test after the other, each returning false at once.
\* ModTime.After(now - d) is Age < d, ModTime.Before(now - d) is Age > d.
Matches(f, fi) ==
    IF DOMAIN f.Types # {} /\ ~TypesLookup(f.Types, getFileType(fi)) THEN FALSE
    ELSE IF f.MtimeOlderThan # <<>> /\ fi.Age < f.MtimeOlderThan[1] THEN FALSE
    ELSE IF f.MtimeYoungerThan # <<>> /\ fi.Age > f.MtimeYoungerThan[1] THEN FALSE
    ELSE IF f.SizeMin # <<>> /\ fi.Size < f.SizeMin[1] THEN FALSE
    ELSE IF f.SizeMax # <<>> /\ fi.Size > f.SizeMax[1] THEN FALSE
    ELSE IF f.NameRegex # <<>> /\ FileName(fi.Path) \notin f.NameRegex[1] THEN FALSE
    ELSE IF Len(f.UIDs) > 0 /\ ~Found(f.UIDs, fi.UID) THEN FALSE
    ELSE IF Len(f.GIDs) > 0 /\ ~Found(f.GIDs, fi.GID) THEN FALSE
    ELSE IF f.PermsHas # {} /\ (fi.Mode.perm \cap f.PermsHas) # f.PermsHas THEN FALSE
    ELSE IF f.PermsNot # {} /\ (fi.Mode.perm \cap f.PermsNot) # {} THEN FALSE
    ELSE TRUE

\* ---- the Filters and the entries of the filter tests and of a walk ----
TypesMap(included, excluded) == [t \in included \cup excluded |-> t \in included]

EmptyFilters ==
    [Types |-> TypesMap({}, {}), MtimeOlderThan |-> <<>>, MtimeYoungerThan |-> <<>>,
     SizeMin |-> <<>>, SizeMax |-> <<>>, NameRegex |-> <<>>,
     Usernames |-> <<>>, UIDs |-> <<>>, Groupnames |-> <<>>, GIDs |-> <<>>,
     PermsHas |-> {}, PermsNot |-> {}]

Perm0644 == {"ur", "uw", "gr", "or"}
Perm0755 == {"ur", "uw", "ux", "gr", "gx", "or", "ox"}
Perm0666 == {"ur", "uw", "gr", "gw", "or", "ow"}

\* the regular expression ^a\.t$, as the names it matches
NameATxt == {<<"a", ".", "t">>}

FilterSet ==
    { EmptyFilters,
      [EmptyFilters EXCEPT !.Types = TypesMap({"file"}, {})],
      [EmptyFilters EXCEPT !.Types = TypesMap({"dir", "other"}, {"file"})],
      [EmptyFilters EXCEPT !.Types = TypesMap({}, {"symlink"})],
      [EmptyFilters EXCEPT !.MtimeOlderThan = <<2>>],
      [EmptyFilters EXCEPT !.MtimeYoungerThan = <<2>>],
      [EmptyFilters EXCEPT !.SizeMin = <<2>>],
      [EmptyFilters EXCEPT !.SizeMax = <<2>>],
      [EmptyFilters EXCEPT !.SizeMin = <<0>>],
      [EmptyFilters EXCEPT !.NameRegex = <<NameATxt>>],
      [EmptyFilters EXCEPT !.UIDs = <<1000>>],
      [EmptyFilters EXCEPT !.GIDs = <<3000, 2000>>],
      [EmptyFilters EXCEPT !.Usernames = <<"alice">>, !.Groupnames = <<"staff">>],
      [EmptyFilters EXCEPT !.PermsHas = {"ur", "ux"}],
      [EmptyFilters EXCEPT !.PermsNot = {"gw", "ow"}],
      [EmptyFilters EXCEPT !.Types = TypesMap({"file"}, {}), !.SizeMin = <<2>>,
                           !.UIDs = <<1000, 2000>>, !.PermsNot = {"ow"}],
      [EmptyFilters EXCEPT !.MtimeOlderThan = <<2>>, !.MtimeYoungerThan = <<2>>,
                           !.GIDs = <<2000>>] }

\* the OnLstat invocations a walk makes: a failed lstat, a directory, two regular
\* files, a symbolic link and a socket
EntrySet ==
    { LstatCall(<<"x">>, <<>>, TRUE),
      LstatCall(<<"d">>, <<LstatInfo("dir", 2, Perm0755, 2, 2024, 1000, 1000)>>, FALSE),
      LstatCall(<<"d", "/", "a", ".", "t">>,
                <<LstatInfo("regular", 3, Perm0644, 3, 2023, 1000, 2000)>>, FALSE),
      LstatCall(<<"b">>, <<LstatInfo("regular", 1, Perm0666, 1, 2024, 2000, 2000)>>, FALSE),
      LstatCall(<<"d", "/", "l">>,
                <<LstatInfo("symlink", 1, Perm0755, 3, 2023, 2000, 1000)>>, FALSE),
      LstatCall(<<"s">>, <<LstatInfo("socket", 0, Perm0755, 1, 2024, 1000, 1000)>>, FALSE) }

\* ---- Results and its maps ----
\* m[k] of a Go map: the zero value for a key the map does not hold
MapGet(m, k) == IF k \in DOMAIN m THEN m[k] ELSE 0

MapSet(m, k, v) == [x \in DOMAIN m \cup {k} |-> IF x = k THEN v ELSE m[x]]

EmptyMap == [k \in {} |-> 0]

\* &YearStat{Year: year} and &UIDStat{UID: uid}: every counter zero
NewStat ==
    [TotalSize |-> 0, TotalInodes |-> 0, Files |-> 0, Dirs |-> 0, Symlinks |-> 0,
     Others |-> 0, FilesSize |-> 0, DirsSize |-> 0, SymlinksSize |-> 0, OthersSize |-> 0]

\* NewStatsWalker: results
NewResults ==
    [Summary |-> NewStat, ByYear |-> EmptyMap, ByUID |-> EmptyMap,
     TotalFiles |-> EmptyMap, TotalSize |-> EmptyMap, TotalInodes |-> EmptyMap,
     AllFileInfos |-> <<>>]

\* "ys.TotalInodes++; ys.TotalSize += fi.Size; switch fileType {...}"
Bump(st, fileType, size) ==
    LET t == [st EXCEPT !.TotalInodes = @ + 1, !.TotalSize = @ + size]
    IN CASE fileType = "file" -> [t EXCEPT !.Files = @ + 1, !.FilesSize = @ + size]
         [] fileType = "dir" -> [t EXCEPT !.Dirs = @ + 1, !.DirsSize = @ + size]
         [] fileType = "symlink" ->
                [t EXCEPT !.Symlinks = @ + 1, !.SymlinksSize = @ + size]
         [] OTHER -> [t EXCEPT !.Others = @ + 1, !.OthersSize = @ + size]

StatOf(m, k) == IF k \in DOMAIN m THEN m[k] ELSE NewStat

\* the body of the callback between Lock and Unlock, applied to the results r
Aggregate(r, fi) ==
    LET fileType == AggregateType(fi)
    IN [r EXCEPT
          !.AllFileInfos = Append(@, fi),
          !.TotalFiles = MapSet(@, fileType, MapGet(@, fileType) + 1),
          !.TotalSize = MapSet(@, fileType, MapGet(@, fileType) + fi.Size),
          !.TotalInodes = MapSet(@, fileType, MapGet(@, fileType) + 1),
          !.ByYear = MapSet(@, fi.Year, Bump(StatOf(@, fi.Year), fileType, fi.Size)),
          !.ByUID = MapSet(@, fi.UID, Bump(StatOf(@, fi.UID), fileType, fi.Size))]

\* "for _, count := range m { sum += count }"
RECURSIVE SumMap(_, _)
SumMap(m, keys) ==
    IF keys = {} THEN 0
    ELSE LET k == CHOOSE x \in keys : TRUE IN m[k] + SumMap(m, keys \ {k})

Summarize(r) ==
    [r EXCEPT !.Summary =
        [@ EXCEPT !.TotalInodes = @ + SumMap(r.TotalInodes, DOMAIN r.TotalInodes),
                  !.TotalSize = @ + SumMap(r.TotalSize, DOMAIN r.TotalSize),
                  !.Files = MapGet(r.TotalFiles, "file"),
                  !.Dirs = MapGet(r.TotalFiles, "dir"),
                  !.Symlinks = MapGet(r.TotalFiles, "symlink"),
                  !.Others = MapGet(r.TotalFiles, "other"),
                  !.FilesSize = MapGet(r.TotalSize, "file"),
                  !.DirsSize = MapGet(r.TotalSize, "dir"),
                  !.SymlinksSize = MapGet(r.TotalSize, "symlink"),
                  !.OthersSize = MapGet(r.TotalSize, "other")]]

\* ---- StatsWalker.Walk: the OnLstat callback, one worker per invocation ----
walkerVars ==
    <<config, cancelled, workerMu, wg, runVars, workerVars, log, errLog>>

\* the callback up to "Apply filters": the entry is dropped or goes on to the lock
StatCall(c) ==
    /\ statPc[c] = "call"
    /\ LET call == inbox[c]
       IN IF call.err \/ call.info = <<>>
          THEN /\ statPc' = [statPc EXCEPT ![c] = "done"]
               /\ UNCHANGED statFi
          ELSE LET fi == BuildFileInfo(call.path, call.info[1])
               IN /\ statFi' = [statFi EXCEPT ![c] = <<fi>>]
                  /\ statPc' = [statPc EXCEPT ![c] =
                                    IF Matches(filters, fi) THEN "lock" ELSE "done"]
    /\ UNCHANGED <<walkerVars, filters, inbox, statTmp, statMu, results, summed>>

\* a Lock that does not wait for the holder
StatLock_NoMutex(c) ==
    /\ statPc[c] = "lock"
    /\ statMu' = MuWorker(c)
    /\ statPc' = [statPc EXCEPT ![c] = "load"]
    /\ UNCHANGED <<walkerVars, filters, inbox, statFi, statTmp, results, summed>>

\* sw.mu.Lock()
StatLock(c) ==
    /\ statPc[c] = "lock"
    /\ statMu = MuFree
    /\ statMu' = MuWorker(c)
    /\ statPc' = [statPc EXCEPT ![c] = "load"]
    /\ UNCHANGED <<walkerVars, filters, inbox, statFi, statTmp, results, summed>>

\* the reads of sw.results that the updates start from
StatLoad(c) ==
    /\ statPc[c] = "load"
    /\ statTmp' = [statTmp EXCEPT ![c] = <<results>>]
    /\ statPc' = [statPc EXCEPT ![c] = "store"]
    /\ UNCHANGED <<walkerVars, filters, inbox, statFi, statMu, results, summed>>

\* the writes to sw.results, and the deferred sw.mu.Unlock()
StatStore(c) ==
    /\ statPc[c] = "store"
    /\ results' = Aggregate(statTmp[c][1], statFi[c][1])
    /\ statTmp' = [statTmp EXCEPT ![c] = <<>>]
    /\ statMu' = MuFree
    /\ statPc' = [statPc EXCEPT ![c] = "done"]
    /\ UNCHANGED <<walkerVars, filters, inbox, statFi, summed>>

\* Walk after walker.Run has returned: sw.calculateSummary()
CalculateSummary ==
    /\ ~summed
    /\ \A c \in DOMAIN statPc : statPc[c] = "done"
    /\ results' = Summarize(results)
    /\ summed' = TRUE
    /\ UNCHANGED <<walkerVars, filters, inbox, statPc, statFi, statTmp, statMu>>

\* NewStatsWalker(paths, MaxCallers, filters) and a walk whose workers are each
\* about to make one OnLstat invocation
AggregationInit ==
    /\ NewWalkerState({MaxCallers}, {{"OnLstat"}})
    /\ tree = "basic"
    /\ filters \in FilterSet
    /\ inbox \in [0 .. (MaxCallers - 1) -> EntrySet]
    /\ statPc = [c \in 0 .. (MaxCallers - 1) |-> "call"]
    /\ statFi = [c \in 0 .. (MaxCallers - 1) |-> <<>>]
    /\ statTmp = [c \in 0 .. (MaxCallers - 1) |-> <<>>]
    /\ statMu = MuFree
    /\ results = NewResults
    /\ summed = FALSE

AggregationNext ==
    \/ \E c \in WorkerIds : StatCall(c)
    \/ \E c \in WorkerIds : StatLock(c)
    \/ \E c \in WorkerIds : StatLoad(c)
    \/ \E c \in WorkerIds : StatStore(c)
    \/ CalculateSummary

AggregationSpec == AggregationInit /\ [][AggregationNext]_vars

(***************************************************************************)
(* Observations used by the properties                                      *)
(***************************************************************************)
\* the positions <<b, i>> of the recorded invocations of hook for path
Invocations(hook, path) ==
    UNION {{<<b, i>> : i \in {j \in 1 .. Len(log[b]) :
                                 log[b][j].hook = hook /\ log[b][j].path = path}} :
           b \in DOMAIN log}

Count(hook, path) == Cardinality(Invocations(hook, path))

\* the positions <<b, i>> of all recorded invocations
Positions == UNION {{<<b, i>> : i \in 1 .. Len(log[b])} : b \in DOMAIN log}

\* every recorded invocation
AllCalls == UNION {{log[b][i] : i \in 1 .. Len(log[b])} : b \in DOMAIN log}

\* the paths of the fixture
Nodes(t) == DOMAIN Trees[t]

IsDirNode(t, p) == Trees[t][p].kind = "dir"

\* p is, or lies beneath, a directory named .snapshot
Ignored(t, p) ==
    \E k \in 1 .. Len(p) : IsDirNode(t, SubSeq(p, 1, k)) /\ p[k] = ".snapshot"

\* every stat and every listing of the fixture succeeds
AllSucceed(t) == \A p \in Nodes(t) : ~Trees[t][p].statErr /\ ~Trees[t][p].readErr

\* the '/'-separated relative path of a node
RECURSIVE PathString(_)
PathString(p) ==
    IF Len(p) = 0 THEN ""
    ELSE IF Len(p) = 1 THEN p[1]
    ELSE p[1] \o "/" \o PathString(Tail(p))

\* the hook through which an entry is reported
EntryHook(t, p) == IF IsDirNode(t, p) THEN "OnDirectory" ELSE "OnFileOrSymlink"

Returned == runPc = "returned"

\* some branch was expanded by a worker other than the one that discovered it
StolenExpanded ==
    \E b \in DOMAIN log : \E c \in DOMAIN log :
        /\ Len(b) > 0
        /\ c = parent(b)
        /\ \E i \in 1 .. Len(log[b]) : \E j \in 1 .. Len(log[c]) :
              log[b][i].w # log[c][j].w

(***************************************************************************)
(* Properties                                                               *)
(***************************************************************************)

\* C1: in a tree whose stats and listings all succeed, by the time Run
\* returns the root and every non-ignored directory has had its OnReadDir and
\* every non-ignored entry has been reported through OnDirectory or
\* OnFileOrSymlink (all hooks configured).
C1_AllVisitedAtReturn ==
    (Returned /\ callbacks = AllHooks /\ AllSucceed(tree)) =>
        \A p \in Nodes(tree) :
            ~Ignored(tree, p) =>
                /\ IsDirNode(tree, p) => Count("OnReadDir", PathString(p)) >= 1
                /\ Len(p) > 0 => Count(EntryHook(tree, p), PathString(p)) >= 1

\* C2: no path ever receives more than one OnReadDir, more than one
\* OnDirectory or more than one OnFileOrSymlink, and no branch's expansion is
\* recorded twice, whatever the interleaving and the steals.
C2_AtMostOnce ==
    LET once == {"OnReadDir", "OnDirectory", "OnFileOrSymlink"}
        made == {q \in Positions : log[q[1]][q[2]].hook \in once}
    IN /\ Cardinality(made) =
             Cardinality({<<log[q[1]][q[2]].hook, log[q[1]][q[2]].path>> : q \in made})
       /\ \A b \in DOMAIN log :
             Cardinality({i \in 1 .. Len(log[b]) :
                             log[b][i].hook = "OnLstat" /\ log[b][i].isDir}) <= 1

\* a complete walk of the basic tree in which a stolen branch was expanded
C2_Witness ==
    /\ Returned
    /\ tree = "basic"
    /\ callbacks = AllHooks
    /\ StolenExpanded
    /\ Count("OnReadDir", "dir1/dir2") = 1
    /\ Count("OnFileOrSymlink", "dir3/file4.txt") = 1

\* C3: for a fixed tree the multiset of paths reported through
\* OnFileOrSymlink and OnDirectory when Run returns does not depend on the
\* worker count or the interleaving: it is each non-ignored entry once.
C3_ReportIndependentOfWorkers ==
    (Returned /\ AllSucceed(tree)) =>
        \A p \in Nodes(tree) :
            Len(p) > 0 =>
                Count(EntryHook(tree, p), PathString(p)) =
                    IF EntryHook(tree, p) \in callbacks /\ ~Ignored(tree, p) THEN 1 ELSE 0

\* C4: under fair scheduling every worker eventually exits its loop and Run
\* eventually returns.
C4_Terminates == <>(Returned /\ \A w \in WorkerIds : pc[w] = "exited")

\* a walk with pops and a steal has terminated
C4_Witness ==
    /\ Returned
    /\ StolenExpanded
    /\ \A w \in WorkerIds : pc[w] = "exited"
    /\ numWorkers > 1

\* C5: Run returns only when every worker has exited its loop, and once Run
\* has returned no callback is recorded and no queue changes.
C5_ReturnAfterWorkers ==
    [][/\ Returned' => \A w \in WorkerIds : pc'[w] = "exited"
       /\ Returned => (log' = log /\ queue' = queue /\ pc' = pc)]_vars

\* Run has returned from a walk that made callbacks on several workers
C5_Witness ==
    /\ Returned
    /\ numWorkers > 1
    /\ StolenExpanded

\* C6: when Run returns every worker's queue is empty and no worker holds a
\* branch.
C6_QuiescentAtReturn ==
    Returned => \A w \in WorkerIds : queue[w] = <<>> /\ held[w] = <<>>

\* StatsWalker's Summary.TotalInodes with empty Filters: the OnLstat
\* invocations that carried no error
StatsTotalInodes ==
    Cardinality(UNION {{<<b, i>> : i \in {j \in 1 .. Len(log[b]) :
                                             log[b][j].hook = "OnLstat" /\ ~log[b][j].err}} :
                       b \in DOMAIN log})

\* C7: a walk of an existing, non-empty directory with 4 workers returns no
\* error and has collected at least one inode.
C7_WalkStarts ==
    (Returned /\ numWorkers = StatsWorkers /\ ~LstatFails(tree, RootBranch)
       /\ ~ReadDirFails(tree, RootBranch) /\ ReadDir(tree, RootBranch) # <<>>) =>
        (runResult = "nil" /\ StatsTotalInodes > 0)

\* C8: with OnLstat the only hook and every stat succeeding, after a walk
\* that exhausted the tree every path (the root, each directory, each
\* non-directory entry) has received exactly one OnLstat.
C8_LstatOncePerPath ==
    (Returned /\ callbacks = {"OnLstat"} /\ AllSucceed(tree)
       /\ RootBranch \in DOMAIN log /\ \A w \in WorkerIds : queue[w] = <<>>) =>
        \A p \in Nodes(tree) :
            ~Ignored(tree, p) => Count("OnLstat", PathString(p)) = 1

\* C9: after the walk every non-ignored directory has exactly one OnReadDir
\* and exactly one OnDirectory; the root has exactly one OnReadDir and no
\* OnDirectory.
C9_OneReadDirOneDirectory ==
    (Returned /\ {"OnReadDir", "OnDirectory"} \subseteq callbacks /\ AllSucceed(tree)) =>
        \A p \in Nodes(tree) :
            (IsDirNode(tree, p) /\ ~Ignored(tree, p)) =>
                /\ Count("OnReadDir", PathString(p)) = 1
                /\ Count("OnDirectory", PathString(p)) = IF Len(p) = 0 THEN 0 ELSE 1

\* the relative paths at or beneath a directory named .snapshot
IgnoredPaths(t) == {PathString(p) : p \in {n \in Nodes(t) : Ignored(t, n)}}

\* C10: a directory named .snapshot never produces a callback for its own
\* path (OnLstat included) nor for a path beneath it, and no branch for it or
\* beneath it is ever queued, held or expanded.
C10_IgnoredNeverSeen ==
    LET ignored == IgnoredPaths(tree)
    IN /\ \A call \in AllCalls : call.path \notin ignored
       /\ \A b \in DOMAIN log : relPath(b) \notin ignored
       /\ \A w \in WorkerIds :
             /\ \A i \in 1 .. Len(queue[w]) : relPath(queue[w][i]) \notin ignored
             /\ \A i \in 1 .. Len(held[w]) : relPath(held[w][i]) \notin ignored

\* the listing holding the .snapshot directory has been processed and the
\* walk went on to report the regular file named .snapshot
C10_Witness ==
    /\ Returned
    /\ tree = "snapshot"
    /\ Count("OnReadDir", "") = 1
    /\ Count("OnFileOrSymlink", "a.txt") = 1
    /\ Count("OnFileOrSymlink", "d/.snapshot") = 1

\* an invocation without the worker that made it
Strip(call) == [hook |-> call.hook, path |-> call.path, isDir |-> call.isDir, err |-> call.err]

\* the invocations recorded so far, and those among them for paths not in paths
CallsMade == {Strip(call) : call \in AllCalls}

CallsOutside(paths) == {c \in CallsMade : c.path \notin paths}

\* the invocations of a walk of fixture t that expands branch b and everything
\* queued from it, one branch after the other
RECURSIVE WalkCalls(_, _, _)
WalkCalls(t, cbs, b) ==
    LET lstat == Invoke(cbs, Call("OnLstat", relPath(b), TRUE, LstatFails(t, b), 0))
        readdir == Invoke(cbs, Call("OnReadDir", relPath(b), FALSE, ReadDirFails(t, b), 0))
        names == ReadDir(t, b)
        SeqSet(calls) == {Strip(calls[i]) : i \in 1 .. Len(calls)}
    IN IF LstatFails(t, b) THEN SeqSet(lstat)
       ELSE IF ReadDirFails(t, b) THEN SeqSet(lstat) \cup SeqSet(readdir)
       ELSE SeqSet(lstat) \cup SeqSet(readdir)
            \cup UNION {SeqSet(EntryCalls(t, cbs, b, names[i], 0)) : i \in 1 .. Len(names)}
            \cup UNION {WalkCalls(t, cbs, EntryPush(t, b, names[i])[1]) :
                          i \in {j \in 1 .. Len(names) : EntryPush(t, b, names[j]) # <<>>}}

\* the root was seeded after worker 0 had given up: the walk never started
RootStranded == \E w \in WorkerIds : pc[w] = "exited" /\ queue[w] # <<>>

\* C11: ignoring .snapshot affects only that subtree: when Run returns, the
\* callbacks made for paths outside the .snapshot subtree in a walk of the
\* tree holding it are those of a walk of the same tree with the subtree
\* removed (each once; none at all in both when the walk never started).
C11_IgnoreAffectsOnlySubtree ==
    (Returned /\ tree \in {"snapshot", "pruned"}) =>
        LET outside == CallsOutside(IgnoredPaths("snapshot"))
        IN /\ outside = IF RootStranded THEN {}
                        ELSE WalkCalls("pruned", callbacks, RootBranch)
           /\ Cardinality({q \in Positions :
                             log[q[1]][q[2]].path \notin IgnoredPaths("snapshot")})
                = Cardinality(outside)

\* a complete walk of the tree holding .snapshot, all hooks configured
C11_Witness ==
    /\ Returned
    /\ tree = "snapshot"
    /\ callbacks = AllHooks
    /\ Count("OnReadDir", "d") = 1
    /\ Count("OnLstat", "a.txt") = 1
    /\ Count("OnDirectory", "d") = 1

\* the branches some worker has queued or is expanding
Pending == UNION {{queue[w][i] : i \in 1 .. Len(queue[w])} \cup
                  {held[w][i] : i \in 1 .. Len(held[w])} : w \in WorkerIds}

\* p lies strictly beneath b
Beneath(p, b) == Len(p) > Len(b) /\ SubSeq(p, 1, Len(b)) = b

\* the invocations recorded for path, whatever the hook
CallsFor(path) == {q \in Positions : log[q[1]][q[2]].path = path}

\* C12: a failure aborts only its branch.  A branch whose stat fails gets
\* one OnLstat carrying the error and nothing else; a branch whose listing
\* fails gets its OnLstat and one OnReadDir carrying the error, no callback
\* for any of its entries, and none of them is queued; and when Run returns
\* from a walk that started, every directory whose ancestors could be
\* stat'd and listed has still been expanded.
C12_FailureAbortsOnlyBranch ==
    LET fx == Trees[tree]
        dirs == {p \in Nodes(tree) : fx[p].kind = "dir" /\ ~Ignored(tree, p)}
        Reachable(p) ==
            \A k \in 0 .. (Len(p) - 1) :
                ~fx[SubSeq(p, 1, k)].statErr /\ ~fx[SubSeq(p, 1, k)].readErr
    IN /\ \A b \in DOMAIN log :
             /\ fx[b].statErr =>
                   /\ Len(log[b]) = 1
                   /\ log[b][1].hook = "OnLstat" /\ log[b][1].isDir /\ log[b][1].err
             /\ (fx[b].readErr /\ ~fx[b].statErr) =>
                   /\ \A i \in 1 .. Len(log[b]) :
                         \/ log[b][i].hook = "OnLstat" /\ ~log[b][i].err /\ i = 1
                         \/ log[b][i].hook = "OnReadDir" /\ log[b][i].err /\ i = Len(log[b])
                   /\ Len(log[b]) <= 2
       /\ \A b \in Nodes(tree) :
             (fx[b].statErr \/ fx[b].readErr) =>
                 \A p \in Nodes(tree) :
                     Beneath(p, b) => (p \notin Pending /\ CallsFor(PathString(p)) = {})
       /\ (Returned /\ ~RootStranded /\ "OnLstat" \in callbacks) =>
             \A p \in dirs :
                 Reachable(p) =>
                     \E q \in CallsFor(PathString(p)) :
                         log[q[1]][q[2]].hook = "OnLstat" /\ log[q[1]][q[2]].isDir

\* one worker has met both failed branches and gone on to return: the
\* unreadable directory was expanded after the vanished one
C12_Witness ==
    /\ Returned
    /\ tree = "fail"
    /\ callbacks = AllHooks
    /\ numWorkers = 1
    /\ errLog = <<"ok/gone", "locked">>
    /\ Count("OnReadDir", "locked") = 1
    /\ Count("OnLstat", "ok/gone") = 1

\* C13: an entry of a listing whose own stat fails gets no OnDirectory and
\* no OnFileOrSymlink invocation and is not queued.
C13_EntryStatFailureAbortsEntry ==
    \A p \in Nodes(tree) :
        (Len(p) > 0 /\ Trees[tree][p].statErr) =>
            /\ Count("OnDirectory", PathString(p)) = 0
            /\ Count("OnFileOrSymlink", PathString(p)) = 0
            /\ p \notin Pending

C15_RunErrorOnRootFailure ==
    (/\ Returned
     /\ Trees[tree][RootBranch].statErr \/ Trees[tree][RootBranch].readErr
     /\ ~RootStranded) =>
        runResult = "error"

\* everything but the cancellation token
walkState == <<config, workerMu, wg, runVars, workerVars, log, errLog>>

C17_StopIdempotent ==
    [][/\ cancelled => cancelled'
       /\ Stop => cancelled'
       /\ (cancelled /\ Stop) => UNCHANGED vars]_vars

\* the token is fired while a worker is in the middle of a listing
C17_Witness ==
    /\ cancelled
    /\ runPc = "wait"
    /\ \E w \in WorkerIds : pc[w] = "entries" /\ idx[w] > 1

\* C18: the walker's worker count is 1 for a requested count <= 0 and the
\* requested count otherwise; Run appends workers with ids 0, 1, ... in
\* order, and from the end of the creation loop on the worker array is
\* exactly ids 0 .. count-1.
C18_WorkerCountAndIds ==
    /\ numWorkers = IF requested <= 0 THEN 1 ELSE requested
    /\ workers = [i \in 1 .. runI |-> i - 1]
    /\ runPc = "lock" => workers = <<>>
    /\ runPc \in {"seed", "wait", "returned"} =>
          workers = [i \in 1 .. numWorkers |-> i - 1]

\* Run has returned on a walker built with a negative count: one worker, id 0
C18_Witness ==
    /\ requested < 0
    /\ Returned
    /\ workers = <<0>>
    /\ pc[0] = "exited"

\* C19: every OnDirectory or OnFileOrSymlink invocation for an entry is
\* preceded by an OnLstat invocation for the same entry (OnLstat
\* configured).  An invocation made while expanding the entry itself cannot
\* precede: the entry is queued only after its OnDirectory.
C19_LstatPrecedesEntryHook ==
    "OnLstat" \in callbacks =>
        \A q \in Positions :
            log[q[1]][q[2]].hook \in {"OnDirectory", "OnFileOrSymlink"} =>
                \E j \in 1 .. (q[2] - 1) :
                    /\ log[q[1]][j].hook = "OnLstat"
                    /\ log[q[1]][j].path = log[q[1]][q[2]].path

\* the expansion of d's parent has recorded OnDirectory for d
DirectoryReported(d) ==
    /\ parent(d) \in DOMAIN log
    /\ \E i \in 1 .. Len(log[parent(d)]) :
          /\ log[parent(d)][i].hook = "OnDirectory"
          /\ log[parent(d)][i].path = PathString(d)

RECURSIVE EntriesCalls(_, _, _, _)
EntriesCalls(t, cbs, b, i) ==
    IF i > Len(ReadDir(t, b)) THEN <<>>
    ELSE EntryCalls(t, cbs, b, ReadDir(t, b)[i], 0) \o EntriesCalls(t, cbs, b, i + 1)

ExpansionCalls(t, cbs, b) ==
    Invoke(cbs, Call("OnLstat", relPath(b), TRUE, Trees[t][b].statErr, 0))
    \o (IF Trees[t][b].statErr THEN <<>>
        ELSE Invoke(cbs, Call("OnReadDir", relPath(b), FALSE, Trees[t][b].readErr, 0))
             \o (IF Trees[t][b].readErr THEN <<>> ELSE EntriesCalls(t, cbs, b, 1)))

\* C21: whenever a callback is recorded for the expansion of a branch, the
\* callbacks recorded for that expansion are an initial part of: the
\* directory's OnLstat, its OnReadDir, then the callbacks of its entries in
\* listing order; and they were all made by one worker.
C21_ExpansionInOrderOnOneWorker ==
    [][\A b \in DOMAIN log' :
          (b \notin DOMAIN log \/ log'[b] # log[b]) =>
              LET expected == ExpansionCalls(tree, callbacks, b)
              IN /\ Len(log'[b]) <= Len(expected)
                 /\ \A i \in 1 .. Len(log'[b]) :
                       /\ Strip(log'[b][i]) = Strip(expected[i])
                       /\ log'[b][i].w = log'[b][1].w]_vars

\* the root of the basic tree was expanded to the end by one worker while
\* another worker expanded a branch it stole
C21_Witness ==
    /\ tree = "basic"
    /\ callbacks = AllHooks
    /\ RootBranch \in DOMAIN log
    /\ Len(log[RootBranch]) = 6
    /\ log[RootBranch][6].hook = "OnLstat"
    /\ StolenExpanded

\* C22: an absent hook is a pure no-op: when Run returns from a walk that
\* started, each configured hook has received exactly the invocations it
\* receives when all four hooks are configured.
C22_AbsentHookIsNoOp ==
    (Returned /\ ~RootStranded) =>
        \A h \in callbacks :
            {c \in CallsMade : c.hook = h}
                = {c \in WalkCalls(tree, AllHooks, RootBranch) : c.hook = h}

\* the invocation is one a branch receives for itself when it is expanded
OwnCall(c) == c.hook = "OnReadDir" \/ (c.hook = "OnLstat" /\ c.isDir)

\* C23: every callback made while expanding a branch carries the '/'-joined
\* basenames from the root: of the branch itself ("" for the root) for its
\* own OnLstat and OnReadDir, of the branch plus the entry's name (the bare
\* name at root level) for an entry; and the path a directory's expansion
\* reports is the path its parent's expansion gave to OnDirectory.
C23_RelativePaths ==
    \A b \in DOMAIN log :
        /\ \A i \in 1 .. Len(log[b]) :
              IF OwnCall(log[b][i])
              THEN log[b][i].path = PathString(b)
              ELSE \E k \in 1 .. Len(Trees[tree][b].entries) :
                      log[b][i].path = PathString(Append(b, Trees[tree][b].entries[k]))
        /\ (Len(b) > 0 /\ "OnDirectory" \in callbacks /\ OwnCall(log[b][1])) =>
              \E j \in 1 .. Len(log[parent(b)]) :
                  /\ log[parent(b)][j].hook = "OnDirectory"
                  /\ log[parent(b)][j].path = log[b][1].path

\* the root, a root-level entry and a directory two levels down were all
\* reported
C23_Witness ==
    /\ tree = "basic"
    /\ callbacks = AllHooks
    /\ Count("OnLstat", "") = 1
    /\ Count("OnFileOrSymlink", "file1.txt") = 1
    /\ Count("OnDirectory", "dir1/dir2") = 1
    /\ Count("OnReadDir", "dir1/dir2") = 1
    /\ Count("OnFileOrSymlink", "dir1/dir2/file3.txt") = 1

\* C24: a symbolic link is never queued, held or expanded, gets no
\* OnDirectory and no OnReadDir, nothing beneath it is ever visited, and in
\* a walk that started it has been reported once through OnFileOrSymlink
\* (when configured) by the time Run returns.
C24_SymlinkNotFollowed ==
    \A p \in Nodes(tree) :
        Trees[tree][p].kind = "symlink" =>
            /\ \A b \in Pending \cup DOMAIN log : b # p /\ ~Beneath(b, p)
            /\ Count("OnDirectory", PathString(p)) = 0
            /\ Count("OnReadDir", PathString(p)) = 0
            /\ (Returned /\ ~RootStranded /\ "OnFileOrSymlink" \in callbacks) =>
                  Count("OnFileOrSymlink", PathString(p)) = 1

\* Run has returned from a walk of the tree holding a link beside the
\* directory it points to
C24_Witness ==
    /\ tree = "symlink"
    /\ Returned
    /\ callbacks = AllHooks
    /\ Count("OnFileOrSymlink", "link") = 1
    /\ Count("OnReadDir", "real") = 1
    /\ Count("OnFileOrSymlink", "real/f") = 1

\* C25: walking an empty root directory never invokes OnDirectory or
\* OnFileOrSymlink and logs no failure, and Run returns nil, whatever the
\* worker count.
C25_EmptyRoot ==
    tree = "empty" =>
        /\ \A c \in AllCalls : c.hook \notin {"OnDirectory", "OnFileOrSymlink"} /\ ~c.err
        /\ errLog = <<>>
        /\ Returned => runResult = "nil"

\* Run has returned from the walk of an empty root that the largest pool
\* expanded
C25_Witness ==
    /\ tree = "empty"
    /\ Returned
    /\ numWorkers = MaxWorkers
    /\ Count("OnReadDir", "") = 1
    /\ Count("OnLstat", "") = 1

\* C26: as long as Run has not yet pushed the root onto worker 0's queue, no
\* worker has performed its first pop: every worker is still unstarted or
\* about to pop for the first time.
C26_RootSeededBeforeFirstPop ==
    runPc \in {"lock", "create", "seed"} =>
        \A w \in WorkerIds : pc[w] \in {"new", "pop"}

\* C27: a worker that has exited its loop has an empty queue and holds no
\* branch: every branch created and not yet expanded is with a worker that
\* is still running.
C27_LiveBranchWithLiveWorker ==
    \A w \in WorkerIds : pc[w] = "exited" => (queue[w] = <<>> /\ held[w] = <<>>)

\* C28: whenever a thief's queuePop on a victim returns a branch, the
\* victim's queue still holds at least one branch right after that removal.
C28_StealNeverEmptiesVictim ==
    [][\A w \in WorkerIds :
          (pc[w] = "stealpop" /\ pc'[w] = "stealpush") =>
              Len(queue'[workers[victim[w]]]) >= 1]_vars

\* the queues of all workers but w are left as they are
OtherQueuesUnchanged(w) == \A u \in WorkerIds : u # w => queue'[u] = queue[u]

\* C29: a steal attempt by worker t examines the peers in increasing index
\* order and never t; from the first peer whose queue length it finds
\* greater than one it removes the most recently pushed branch, pushes
\* exactly that branch onto its own queue and succeeds; if no peer
\* qualifies it changes no queue and fails.
C29_StealAttempt ==
    [][\A t \in WorkerIds :
          /\ (pc[t] = "steal" /\ pc'[t] = "scan") => (victim'[t] = 1 /\ queue' = queue)
          /\ (pc[t] = "scan" /\ pc'[t] = "scan" /\ victim'[t] # victim[t]) =>
                /\ victim'[t] = victim[t] + 1
                /\ queue' = queue
                /\ workers[victim[t]] = t \/ Len(queue[workers[victim[t]]]) <= 1
          /\ (pc[t] = "scan" /\ pc'[t] = "stealpop") =>
                /\ workers[victim[t]] = victim[t] - 1
                /\ workers[victim[t]] # t
                /\ Len(queue[workers[victim[t]]]) > 1
                /\ queue' = queue
          /\ (pc[t] = "stealpop" /\ pc'[t] # "stealpop") =>
                LET v == workers[victim[t]]
                IN /\ pc'[t] = "stealpush"
                   /\ held'[t] = <<queue[v][Len(queue[v])]>>
                   /\ queue'[v] = SubSeq(queue[v], 1, Len(queue[v]) - 1)
                   /\ OtherQueuesUnchanged(v)
          /\ (pc[t] = "stealpush" /\ pc'[t] # "stealpush") =>
                /\ pc'[t] = "pop"
                /\ queue'[t] = Append(queue[t], held[t][1])
                /\ OtherQueuesUnchanged(t)
          /\ (pc[t] = "scan" /\ pc'[t] = "exited") =>
                (victim[t] > Len(workers) /\ queue' = queue)]_vars

\* C30: each worker queue is a stack.  Every step leaves a queue as it is,
\* appends one branch to it, or removes its most recently pushed branch and
\* hands exactly that branch to the worker that popped; a worker's pop on
\* its empty queue returns nil and leaves the queue alone; and the length
\* the operators report is the number of branches held.
C30_QueueIsStack ==
    [][\A w \in WorkerIds :
          LET q == queue[w]
              n == Len(q)
          IN /\ \/ queue'[w] = q
                \/ Len(queue'[w]) = n + 1 /\ SubSeq(queue'[w], 1, n) = q
                \/ /\ n > 0
                   /\ queue'[w] = SubSeq(q, 1, n - 1)
                   /\ \E u \in WorkerIds : held[u] = <<>> /\ held'[u] = <<q[n]>>
             /\ (pc[w] = "pop" /\ pc'[w] # "pop") =>
                   IF q = <<>>
                   THEN queue' = queue /\ held'[w] = <<>> /\ pc'[w] = "steal"
                   ELSE queue'[w] = SubSeq(q, 1, n - 1) /\ held'[w] = <<q[n]>>
             /\ queueLen(q) = Cardinality(DOMAIN q)
             /\ queueLen(queue'[w]) = Cardinality(DOMAIN queue'[w])]_vars

\* a worker has popped the later of the two branches it had pushed
C30_Witness ==
    /\ tree = "basic"
    /\ \E w \in WorkerIds :
          /\ pc[w] = "lstat"
          /\ held[w] = <<(<<"dir3">>)>>
          /\ queue[w] = <<(<<"dir1">>)>>

\* the invocations recorded in l that worker w made
CallsBy(l, w) ==
    UNION {{<<b, i>> : i \in {j \in 1 .. Len(l[b]) : l[b][j].w = w}} : b \in DOMAIN l}

\* C31: a worker that has exited stays exited: in no later step does it pop,
\* hold or push a branch, scan for a steal or make a callback; its queue
\* changes only if Run seeds the root into it.
C31_ExitIsPermanent ==
    [][\A w \in WorkerIds :
          pc[w] = "exited" =>
              /\ pc'[w] = "exited"
              /\ held'[w] = <<>> /\ victim'[w] = victim[w] /\ idx'[w] = idx[w]
              /\ workerMu' # MuWorker(w)
              /\ queue'[w] # queue[w] =>
                    (runPc = "seed" /\ queue'[w] = Append(queue[w], RootBranch))
              /\ log' # log => CallsBy(log', w) = CallsBy(log, w)]_vars

\* worker 0 exited, the root appeared in its own queue afterwards, and Run
\* has returned with the root still there
C31_Witness ==
    /\ Returned
    /\ pc[0] = "exited"
    /\ queue[0] = <<RootBranch>>
    /\ log = <<>>
    /\ tree = "basic"

\* the workers inside stealWork's critical section
Scanning == {w \in WorkerIds : pc[w] \in {"scan", "stealpop", "stealpush"}}

\* C32: at most one worker is inside a steal scan (the length checks, the
\* removal and the push onto its own queue) at any time, that worker holds
\* the lock over the worker array, and none is inside while Run holds it.
C32_OneThiefAtATime ==
    /\ Cardinality(Scanning) <= 1
    /\ \A w \in Scanning : workerMu = MuWorker(w)
    /\ workerMu = MuRun => Scanning = {}

\* one worker is about to take a branch from a victim while another worker
\* waits to start its own scan
C32_Witness ==
    \E t \in WorkerIds : \E u \in WorkerIds :
        /\ t # u
        /\ pc[t] = "stealpop"
        /\ pc[u] = "steal"
        /\ workerMu = MuWorker(t)

\* C33: a worker's queue grows by one branch at a time and only through a
\* push of that worker itself (a child of the branch it is expanding, or
\* the branch it has just stolen) or through Run seeding the root into
\* worker 0's queue.
C33_QueueGrowsOnlyByOwner ==
    [][\A w \in WorkerIds :
          Len(queue'[w]) > Len(queue[w]) =>
              /\ Len(queue'[w]) = Len(queue[w]) + 1
              /\ SubSeq(queue'[w], 1, Len(queue[w])) = queue[w]
              /\ LET item == queue'[w][Len(queue'[w])]
                 IN \/ /\ pc[w] = "push"
                       /\ Len(item) > 0 /\ parent(item) = held[w][1]
                    \/ /\ pc[w] = "stealpush"
                       /\ item = held[w][1]
                    \/ /\ runPc = "seed" /\ runPc' = "wait"
                       /\ w = 0 /\ item = RootBranch]_vars

\* the worker that expanded the root keeps the child it queued first while a
\* thief has the other child in its own queue
C33_Witness ==
    /\ tree = "basic"
    /\ callbacks = AllHooks
    /\ RootBranch \in DOMAIN log
    /\ \E t \in WorkerIds : \E u \in WorkerIds :
          /\ t # u
          /\ log[RootBranch][1].w = u
          /\ queue[u] = <<(<<"dir1">>)>>
          /\ queue[t] = <<(<<"dir3">>)>>

\* the places that hold a branch: queue positions and workers' hands
Places ==
    UNION {{<<"queue", w, i>> : i \in 1 .. Len(queue[w])} \cup
           {<<"held", w, i>> : i \in 1 .. Len(held[w])} : w \in WorkerIds}

\* C34: every created and unexpanded branch is in exactly one place (one
\* position of one queue, or the hands of one worker), a queued branch has
\* not been expanded before, the steps of a steal leave the set of live
\* branches as it is, and a branch leaves that set only when the worker
\* holding it ends its expansion.
C34_BranchInExactlyOnePlace ==
    [][/\ Cardinality(Places') = Cardinality(Pending')
       /\ \A w \in WorkerIds : \A i \in 1 .. Len(queue'[w]) :
             queue'[w][i] \notin DOMAIN log'
       /\ (\E t \in WorkerIds : pc[t] \in {"stealpop", "stealpush"} /\ pc'[t] # pc[t]) =>
             Pending' = Pending
       /\ Pending \ Pending' # {} =>
             \E w \in WorkerIds :
                 /\ pc[w] \in {"lstat", "readdir", "entries"}
                 /\ held'[w] = <<>>
                 /\ Pending \ Pending' = {held[w][1]}]_vars

\* a stolen branch is in its thief's hands, between the victim's queue and
\* the thief's own
C34_Witness ==
    \E t \in WorkerIds :
        /\ pc[t] = "stealpush"
        /\ held[t] # <<>>
        /\ \A w \in WorkerIds : \A i \in 1 .. Len(queue[w]) : queue[w][i] # held[t][1]
        /\ Len(queue[workers[victim[t]]]) = 1

\* C35: no reachable state is a deadlock.  Until Run has returned, Run or
\* some worker can take a step; whoever holds the lock over the worker
\* array is inside the section it guards and can itself take a step; and a
\* worker waiting for that lock can take it as soon as it is free.
C35_NoDeadlock ==
    /\ Returned \/ ENABLED RunStep \/ \E w \in WorkerIds : ENABLED WorkerStep(w)
    /\ workerMu = MuRun => (runPc = "create" /\ ENABLED RunStep)
    /\ \A w \in WorkerIds :
          /\ workerMu = MuWorker(w) => (w \in Scanning /\ ENABLED WorkerStep(w))
          /\ (pc[w] = "steal" /\ workerMu = MuFree) => ENABLED StealLock(w)

\* a started worker waits for the lock over the worker array while Run
\* still holds it to create the remaining workers
C35_Witness ==
    /\ runPc = "create"
    /\ workerMu = MuRun
    /\ runI < numWorkers
    /\ \E w \in WorkerIds : pc[w] = "steal"

\* no thief has passed the length test on t's queue and is about to pop it
NoThiefOn(t) == ~\E u \in WorkerIds : pc[u] = "stealpop" /\ workers[victim[u]] = t

\* C36: when a steal succeeds the thief's queue holds exactly the stolen
\* branch and no other thief is in a scan; from then on that queue stays as
\* it is, and out of reach of any scan, until the thief's own pop takes the
\* branch for expansion.
C36_ThiefExpandsStolenBranch ==
    [][\A t \in WorkerIds :
          /\ (pc[t] = "stealpush" /\ pc'[t] = "pop") =>
                /\ queue'[t] = <<held[t][1]>>
                /\ Scanning' = {}
          /\ (pc[t] = "pop" /\ Len(queue[t]) = 1 /\ NoThiefOn(t)) =>
                \/ /\ pc'[t] = "pop"
                   /\ queue'[t] = queue[t]
                   /\ NoThiefOn(t)'
                \/ /\ pc'[t] = "lstat"
                   /\ held'[t] = <<queue[t][1]>>
                   /\ queue'[t] = <<>>]_vars

\* a thief is about to expand a branch whose parent another worker expanded
C36_Witness ==
    \E t \in WorkerIds :
        /\ pc[t] = "lstat"
        /\ queue[t] = <<>>
        /\ Len(held[t][1]) > 0
        /\ parent(held[t][1]) \in DOMAIN log
        /\ log[parent(held[t][1])][1].w # t


(***************************************************************************)
(* Package stat: aggregation and filters (AggregationSpec)                  *)
(***************************************************************************)
\* the OnLstat invocations that carried no error and passed the filters
Passing ==
    {c \in DOMAIN inbox :
        /\ ~inbox[c].err
        /\ inbox[c].info # <<>>
        /\ Matches(filters, BuildFileInfo(inbox[c].path, inbox[c].info[1]))}

RECURSIVE SumInodes(_, _)
SumInodes(m, keys) ==
    IF keys = {} THEN 0
    ELSE LET k == CHOOSE x \in keys : TRUE
         IN m[k].TotalInodes + SumInodes(m, keys \ {k})

\* C37: after Walk, Summary.TotalInodes is the number of OnLstat invocations that
\* carried no error and passed the filters, and so are len(AllFileInfos), the sum
\* of the per-year inode counts and the sum of the per-UID inode counts, however
\* the workers' callbacks interleave.
C37_AggregationIsAtomic ==
    summed =>
        /\ results.Summary.TotalInodes = Cardinality(Passing)
        /\ Len(results.AllFileInfos) = Cardinality(Passing)
        /\ SumInodes(results.ByYear, DOMAIN results.ByYear) = Cardinality(Passing)
        /\ SumInodes(results.ByUID, DOMAIN results.ByUID) = Cardinality(Passing)

\* a finished walk in which several workers added to the same year and owner
C37_Witness ==
    /\ summed
    /\ Cardinality(Passing) >= 2
    /\ \E u \in DOMAIN results.ByUID : results.ByUID[u].TotalInodes >= 2
    /\ \E y \in DOMAIN results.ByYear : results.ByYear[y].TotalInodes >= 2

\* the file name a name pattern is matched against: the last component of the path
LastComponent(path) ==
    LET n == Len(path)
        starts == {i \in 1 .. (n + 1) :
                      /\ i = 1 \/ path[i - 1] = "/"
                      /\ \A j \in i .. n : path[j] # "/"}
    IN SubSeq(path, CHOOSE i \in starts : TRUE, n)

\* the filters of f that are set: each name with the test the entry has to pass
ActiveFilters(f, fi) ==
    [type |-> [set |-> DOMAIN f.Types # {},
               pass |-> \E t \in DOMAIN f.Types : t = getFileType(fi) /\ f.Types[t]],
     older |-> [set |-> f.MtimeOlderThan # <<>>,
                pass |-> \A d \in {f.MtimeOlderThan[k] : k \in DOMAIN f.MtimeOlderThan} :
                            fi.Age >= d],
     younger |-> [set |-> f.MtimeYoungerThan # <<>>,
                  pass |-> \A d \in {f.MtimeYoungerThan[k] :
                                        k \in DOMAIN f.MtimeYoungerThan} : fi.Age <= d],
     sizeMin |-> [set |-> f.SizeMin # <<>>,
                  pass |-> \A m \in {f.SizeMin[k] : k \in DOMAIN f.SizeMin} : fi.Size >= m],
     sizeMax |-> [set |-> f.SizeMax # <<>>,
                  pass |-> \A m \in {f.SizeMax[k] : k \in DOMAIN f.SizeMax} : fi.Size <= m],
     name |-> [set |-> f.NameRegex # <<>>,
               pass |-> \A re \in {f.NameRegex[k] : k \in DOMAIN f.NameRegex} :
                           LastComponent(fi.Path) \in re],
     uid |-> [set |-> f.UIDs # <<>>,
              pass |-> fi.UID \in {f.UIDs[k] : k \in DOMAIN f.UIDs}],
     gid |-> [set |-> f.GIDs # <<>>,
              pass |-> fi.GID \in {f.GIDs[k] : k \in DOMAIN f.GIDs}],
     permsHas |-> [set |-> f.PermsHas # {}, pass |-> f.PermsHas \subseteq fi.Mode.perm],
     permsNot |-> [set |-> f.PermsNot # {},
                   pass |-> \A b \in f.PermsNot : b \notin fi.Mode.perm]]

\* a worker's callback has just applied the filters to the entry it built
Filtered(c) == statPc[c] = "call" /\ statPc'[c] # "call" /\ statFi'[c] # <<>>

\* C38: Filters.Matches returns true exactly when the entry passes every filter
\* that is set; a filter left at its zero value never rejects, so an empty
\* Filters matches every entry.
C38_MatchesIsConjunction ==
    [][\A c \in DOMAIN statPc :
          Filtered(c) =>
              LET active == ActiveFilters(filters, statFi'[c][1])
              IN /\ (statPc'[c] = "lock") <=>
                        (\A n \in DOMAIN active : active[n].set => active[n].pass)
                 /\ (\A n \in DOMAIN active : ~active[n].set) => statPc'[c] = "lock"]_vars

\* an entry was rejected by the one filter that is set and it fails, another went
\* through filters it passes
C38_Witness ==
    \E c, d \in DOMAIN statPc :
        /\ statFi[c] # <<>> /\ statPc[c] = "done" /\ c \notin Passing
        /\ LET active == ActiveFilters(filters, statFi[c][1])
           IN Cardinality({n \in DOMAIN active : active[n].set}) = 1
        /\ statFi[d] # <<>> /\ statPc[d] = "lock"
        /\ LET active == ActiveFilters(filters, statFi[d][1])
           IN \E n \in DOMAIN active : active[n].set

\* C39: every entry is aggregated under the type getFileType gives it: for each
\* type, the inodes counted under it are the recorded entries getFileType puts there.
C39_AggregatedUnderFilterType ==
    \A t \in FileTypes :
        MapGet(results.TotalInodes, t) =
            Cardinality({i \in 1 .. Len(results.AllFileInfos) :
                            getFileType(results.AllFileInfos[i]) = t})

====
